---- MODULE Spec2Model ----
(***************************************************************************)
(* cargo-cmd: manifest classification (src/src/cargo.rs) and the command   *)
(* lookup of the binary (src/src/main.rs).                                 *)
(*                                                                         *)
(* Strings that the code takes apart (paths, exclude entries) are          *)
(* sequences of tokens: "a", "b", "/", "." and the file name "Cargo.toml". *)
(* A TOML value is a record with a kind field k.                           *)
(***************************************************************************)
EXTENDS Naturals, Sequences, FiniteSets, TLC

\* ------------------------------------------------------------------------
\* Bounds of the input domain
\* ------------------------------------------------------------------------
MaxPatterns == 2
MaxExcludes == 1
MaxCommands == 3

\* ------------------------------------------------------------------------
\* Result<T, Error> and Error { kind, message }
\* ------------------------------------------------------------------------
Ok(v) == [ok |-> TRUE, v |-> v]
Err(e) == [ok |-> FALSE, e |-> e]

\* ErrorKind carries a String payload; payload is a token sequence.
Error(kind, payload, message) ==
  [kind |-> kind, payload |-> payload, message |-> message]

\* impl From<io::Error> for ErrorKind
FromIoError == "IoError"
\* impl From<toml::de::Error> for ErrorKind
FromTomlError == "ParseError"
\* impl From<glob::PatternError> for ErrorKind
FromPatternError == "PatternError"
\* impl From<glob::GlobError> for ErrorKind
FromGlobError == "GlobError"

\* ------------------------------------------------------------------------
\* Paths (std::path::PathBuf)
\* ------------------------------------------------------------------------
RECURSIVE SplitSlash(_)
SplitSlash(s) ==
  IF s = <<>> THEN << <<>> >>
  ELSE LET rest == SplitSlash(Tail(s)) IN
       IF Head(s) = "/" THEN << <<>> >> \o rest
       ELSE << <<Head(s)>> \o Head(rest) >> \o Tail(rest)

\* Path::components on Unix: a leading "/" is the root, empty segments and
\* "." segments are dropped, except a "." that starts a relative path.
Components(s) ==
  LET segs == SplitSlash(s)
      hasRoot == s # <<>> /\ Head(s) = "/"
      keep(i) == /\ segs[i] # <<>>
                 /\ (segs[i] = <<".">> => (i = 1 /\ ~hasRoot))
      idx == {i \in 1..Len(segs) : keep(i)}
      RECURSIVE Collect(_)
      Collect(i) == IF i > Len(segs) THEN <<>>
                    ELSE (IF i \in idx THEN <<segs[i]>> ELSE <<>>) \o Collect(i + 1)
  IN (IF hasRoot THEN << <<"/">> >> ELSE <<>>) \o Collect(1)

\* impl PartialEq for PathBuf: equal when the components are equal.
PathBufEq(p, q) == Components(p) = Components(q)

\* Vec<PathBuf>::contains
Contains(pathBufs, p) == \E j \in 1..Len(pathBufs) : PathBufEq(pathBufs[j], p)

\* PathBuf::join(file) followed by to_str
Join(p, file) ==
  IF p = <<>> THEN <<file>>
  ELSE IF p[Len(p)] = "/" THEN p \o <<file>>
  ELSE p \o <<"/", file>>

\* ------------------------------------------------------------------------
\* The glob crate, on the directory layout of the model: the working
\* directory holds Cargo.toml, the directories a and b, and a directory uu
\* that cannot be read.
\* ------------------------------------------------------------------------
Patterns == {"a", "?", "[", "uu/?"}

\* glob::glob(pattern): Err(PatternError) for a malformed pattern, else the
\* items of the iteration in the crate's (sorted) order; an item is Err
\* (GlobError) where a directory cannot be read.
Glob(pattern) ==
  CASE pattern = "a" -> Ok(<< Ok(<<"a">>) >>)
    [] pattern = "?" -> Ok(<< Ok(<<"a">>), Ok(<<"b">>) >>)
    [] pattern = "uu/?" -> Ok(<< Err("uu") >>)
    [] OTHER -> Err("pattern")

\* ------------------------------------------------------------------------
\* TOML values of a manifest
\* ------------------------------------------------------------------------
Template(name) == <<"echo", name>>
Table(names) == [n \in names |-> Template(n)]
NoCommands == Table({})

CmdTables == {Table({}), Table({"t"}), Table({"pret", "t", "postt"}),
              Table({"pret", "postt"})}
CmdTablesLite == {Table({}), Table({"t"})}

Absent == [k |-> "absent"]
NonTable == [k |-> "nontable"]

MetaDefects == {[k |-> "nontable"], [k |-> "nocommands"], [k |-> "badcommands"]}
MetaOk(t) == [k |-> "table", commands |-> t]
MetaVals == {Absent} \cup MetaDefects \cup {MetaOk(t) : t \in CmdTables}
MetaValsLite == {Absent} \cup MetaDefects \cup {MetaOk(t) : t \in CmdTablesLite}

PkgTable(m) == [k |-> "table", metadata |-> m]
PkgVals == {Absent, NonTable} \cup {PkgTable(m) : m \in MetaVals}
PkgValsLite == {Absent, PkgTable(Absent), PkgTable(MetaOk(Table({"t"})))}

RECURSIVE SeqsUpTo(_, _)
SeqsUpTo(S, n) ==
  IF n = 0 THEN {<<>>}
  ELSE LET shorter == SeqsUpTo(S, n - 1) IN
       shorter \cup {Append(s, x) : s \in shorter, x \in S}

Strings(v) == [k |-> "strings", v |-> v]
MembersVals == {Absent, [k |-> "nonarray"], [k |-> "badelems"]}
               \cup {Strings(v) : v \in SeqsUpTo(Patterns, MaxPatterns)}

ExcludeStrs == {<<"a">>, <<"b", "/">>, <<".", "/", "a">>}
ExcludeVals == {Absent, [k |-> "bad"]}
               \cup {Strings(v) : v \in SeqsUpTo(ExcludeStrs, MaxExcludes) \ {<<>>}}

WsTable(m, x, md) == [k |-> "table", members |-> m, exclude |-> x, metadata |-> md]
WsVals == {NonTable} \cup
          {WsTable(m, x, md) : m \in MembersVals, x \in ExcludeVals, md \in MetaValsLite}

Doc(p, w) == [k |-> "doc", package |-> p, workspace |-> w]
NoFile == [k |-> "nofile"]
BadSyntax == [k |-> "badsyntax"]

\* What the file Cargo.toml of the working directory may hold.
RootFiles ==
  {NoFile, BadSyntax}
  \cup {Doc(p, Absent) : p \in PkgVals}
  \cup {Doc(p, w) : p \in PkgValsLite, w \in WsVals}

\* What the file Cargo.toml of a member directory may hold.
MemberFiles ==
  { NoFile,
    Doc(PkgTable(MetaOk(Table({"t"}))), Absent),
    Doc(PkgTable(Absent), Absent),
    Doc(Absent, WsTable(Strings(<<>>), Absent, Absent)),
    Doc(Absent, WsTable(Strings(<<"a">>), Absent, Absent)) }

RootKey == << <<"Cargo.toml">> >>
MemberKey(d) == << <<d>>, <<"Cargo.toml">> >>
FsKeys == {RootKey, MemberKey("a"), MemberKey("b")}

\* ------------------------------------------------------------------------
\* State
\* ------------------------------------------------------------------------
VARIABLES
  fs,        \* the manifests on disk: FsKeys -> file content
  pc,        \* where main is: "start", "get_commands", "returned", "exit", "overflow"
  command,   \* the command name given on the command line
  stack,     \* the active calls of CargoToml::from_path, outermost first
  loaded,    \* the paths handed to read_file, in call order
  manifest,  \* what CargoToml::from_path("Cargo.toml") returned
  commands,  \* what get_commands returned
  exitCode,  \* the status the process ends with
  rest,      \* the arguments after the command name
  index,     \* the iterations of main's loop that have completed
  running,   \* the shell command execute_command is waiting for
  started,   \* the shell commands execute_command has printed and started
  exits      \* the statuses execute_command has returned

loopVars == <<rest, index, running, started, exits>>
vars == <<fs, pc, command, stack, loaded, manifest, commands, exitCode, loopVars>>

None == [some |-> FALSE]
Some(v) == [some |-> TRUE, v |-> v]

CommandNames == {"t"}

\* ------------------------------------------------------------------------
\* read_file and the conversions of cargo.rs
\* ------------------------------------------------------------------------
\* The file a path names: the operating system resolves the components and
\* skips ".".
FsKey(path) == SelectSeq(Components(path), LAMBDA c : c # <<".">>)
FileAt(path) == IF FsKey(path) \in FsKeys THEN fs[FsKey(path)] ELSE NoFile

read_file(path) ==
  IF FileAt(path) = NoFile
  THEN Err(Error(FromIoError, <<"io">>, <<"Failed to open file">> \o path))
  ELSE Ok(FileAt(path))

\* content.parse::<toml::Value>()
ParseToml(content, path) ==
  IF content = BadSyntax
  THEN Err(Error(FromTomlError, <<"toml">>, <<"Failed to parse">> \o path))
  ELSE Ok(content)

\* The derived Deserialize of Metadata { commands: HashMap<String, String> }:
\* the value must be a table with a string-to-string table `commands`.
DeserializeMetadata(value) ==
  IF value.k = "table" THEN Ok([commands |-> value.commands]) ELSE Err("de")

\* The derived Deserialize of Package { metadata: Metadata }: the value must
\* be a table whose `metadata` deserializes; a missing field is an error.
DeserializePackage(value) ==
  IF value.k = "table"
  THEN LET m == DeserializeMetadata(value.metadata) IN
       IF m.ok THEN Ok([metadata |-> m.v]) ELSE Err("de")
  ELSE Err("de")

\* impl TryFrom<toml::Value> for Package
PackageTryFrom(value) ==
  LET r == DeserializePackage(value) IN
  IF r.ok THEN Ok(r.v)
  ELSE Err(Error(FromTomlError, <<"de">>, <<"Failed to convert package">>))

\* impl TryFrom<toml::Value> for Metadata
MetadataTryFrom(value) ==
  LET r == DeserializeMetadata(value) IN
  IF r.ok THEN Ok(r.v)
  ELSE Err(Error(FromTomlError, <<"de">>, <<"Failed to convert metadata">>))

\* value.try_into::<Vec<String>>() of an array value
StringsTryInto(value, what) ==
  IF value.k = "strings" THEN Ok(value.v)
  ELSE Err(Error(FromTomlError, <<"de">>, <<"Failed to convert workspace", what>>))

\* ------------------------------------------------------------------------
\* Path resolver
\* ------------------------------------------------------------------------
\* The error of the first item of the iteration that is an error.
FirstErr(items) ==
  items[CHOOSE i \in 1..Len(items) :
          ~items[i].ok /\ \A j \in 1..(i - 1) : items[j].ok].e

\* extend_glob with one error kind for both failures.
extend_glob_OneKind(pattern) ==
  LET g == Glob(pattern) IN
  IF ~g.ok
  THEN Err(Error(FromGlobError, <<g.e>>, <<"Invalid glob pattern", pattern>>))
  ELSE IF \E i \in 1..Len(g.v) : ~g.v[i].ok
  THEN Err(Error(FromGlobError, <<FirstErr(g.v)>>, <<"Error reading path for globbing">>))
  ELSE Ok([i \in 1..Len(g.v) |-> g.v[i].v])

extend_glob(pattern) ==
  LET g == Glob(pattern) IN
  IF ~g.ok
  THEN Err(Error(FromPatternError, <<g.e>>, <<"Invalid glob pattern", pattern>>))
  ELSE IF \E i \in 1..Len(g.v) : ~g.v[i].ok
  THEN Err(Error(FromGlobError, <<FirstErr(g.v)>>, <<"Error reading path for globbing">>))
  ELSE Ok([i \in 1..Len(g.v) |-> g.v[i].v])

\* KeepPaths without the exclude test.
KeepPaths_NoExclude(path_bufs, exclude_path_bufs) == path_bufs

\* The paths of one pattern that extend_globs pushes.
KeepPaths(path_bufs, exclude_path_bufs) ==
  SelectSeq(path_bufs, LAMBDA p : ~Contains(exclude_path_bufs, p))

RECURSIVE extend_globs_from(_, _, _, _)
extend_globs_from(patterns, exclude_path_bufs, i, paths) ==
  IF i > Len(patterns) THEN Ok(paths)
  ELSE LET r == extend_glob(patterns[i]) IN
       IF ~r.ok THEN r
       ELSE extend_globs_from(patterns, exclude_path_bufs, i + 1,
                              paths \o KeepPaths(r.v, exclude_path_bufs))

extend_globs(patterns, excludes) == extend_globs_from(patterns, excludes, 1, <<>>)

\* ------------------------------------------------------------------------
\* Workspace::try_from, in the three phases the member loads split it into
\* ------------------------------------------------------------------------
MalformedWorkspace(reason) ==
  Error("MalformedManifest", <<reason>>, <<"Failed to convert workspace">>)

\* Up to the member loads. "return": try_from returns r at once (the ? on
\* excludes, patterns and extend_globs, or the value is no table).
\* "members": the members expression is r and the metadata is read next.
\* "load": the paths whose manifests are loaded, in order.
WorkspaceBegin(value) ==
  IF value.k # "table"
  THEN [t |-> "return", r |-> Err(MalformedWorkspace("Workspace is not a table"))]
  ELSE IF value.members.k = "absent"
  THEN [t |-> "members", r |-> Err(MalformedWorkspace("Workspace does not contain members"))]
  ELSE IF value.members.k = "nonarray"
  THEN [t |-> "members", r |-> Err(MalformedWorkspace("Workspace members is not an array"))]
  ELSE LET excludes == IF value.exclude.k = "absent" THEN Ok(<<>>)
                       ELSE StringsTryInto(value.exclude, "excludes")
           patterns == StringsTryInto(value.members, "members")
       IN IF ~excludes.ok THEN [t |-> "return", r |-> excludes]
          ELSE IF ~patterns.ok THEN [t |-> "return", r |-> patterns]
          ELSE LET path_bufs == extend_globs(patterns.v, excludes.v) IN
               IF ~path_bufs.ok THEN [t |-> "return", r |-> path_bufs]
               ELSE [t |-> "load", path_bufs |-> path_bufs.v]

\* The closure of the member map, applied to what from_path returned.
MemberPackage(cargo_toml) ==
  IF ~cargo_toml.ok THEN cargo_toml
  ELSE IF cargo_toml.v.k = "Package" THEN Ok([metadata |-> cargo_toml.v.metadata])
  ELSE Err(MalformedWorkspace("Only package members are currently supported"))

\* From the metadata lookup to the end, with the members expression's value.
WorkspaceEnd(value, members) ==
  LET metadata == IF value.metadata.k # "absent" THEN MetadataTryFrom(value.metadata)
                  ELSE Ok([commands |-> NoCommands])
  IN IF ~metadata.ok THEN metadata
     ELSE IF ~members.ok THEN members
     ELSE Ok([members |-> members.v, metadata |-> metadata.v])

\* ------------------------------------------------------------------------
\* CargoToml::from_path
\* ------------------------------------------------------------------------
MalformedPath(path, message) == Error("MalformedManifest", path, <<message>>)

Package(path, metadata) == [k |-> "Package", path |-> path, metadata |-> metadata]
RootPackage(path, package, workspace) ==
  [k |-> "RootPackage", path |-> path, package |-> package, workspace |-> workspace]
VirtualManifest(path, workspace) ==
  [k |-> "VirtualManifest", path |-> path, workspace |-> workspace]

\* WithWorkspace without the package.is_some() test.
WithWorkspace_NoPackageTest(path, package, workspace) ==
  IF ~workspace.ok THEN workspace
  ELSE Ok(VirtualManifest(path, workspace.v))

\* The value built once Workspace::try_from has returned.
WithWorkspace(path, package, workspace) ==
  IF ~workspace.ok THEN workspace
  ELSE IF package.some
  THEN Ok(RootPackage(path, [metadata |-> package.v.metadata], workspace.v))
  ELSE Ok(VirtualManifest(path, workspace.v))

\* WithoutWorkspace with an empty package in place of the error.
WithoutWorkspace_NoError(path, package) ==
  IF package.some THEN Ok(Package(path, package.v.metadata))
  ELSE Ok(Package(path, [commands |-> NoCommands]))

\* The value built when the table has no workspace key.
WithoutWorkspace(path, package) ==
  IF package.some THEN Ok(Package(path, package.v.metadata))
  ELSE Err(MalformedPath(path, "Manifest does not contain neither package or workspace"))

Frame(path) ==
  [path |-> path, at |-> "read", package |-> None, path_bufs |-> <<>>,
   cargo_toml |-> None, packages |-> <<>>, members |-> None, ret |-> None]

Top == stack[Len(stack)]
SetTop(f) == [stack EXCEPT ![Len(stack)] = f]
Returned(f, r) == [f EXCEPT !.at = "done", !.ret = Some(r)]

\* impl fmt::Display for Error
Display(e) ==
  CASE e.kind = "MissingCommand" -> <<"Command">> \o e.payload \o <<"not found in Cargo.toml">>
    [] e.kind = "MalformedManifest" -> <<"Malformed manifest">> \o e.payload \o e.message
    [] OTHER -> e.message \o e.payload

\* ------------------------------------------------------------------------
\* Initial state: the files on disk and the command line
\* ------------------------------------------------------------------------
Init ==
  /\ \E root \in RootFiles, a \in MemberFiles, b \in MemberFiles :
       fs = [key \in FsKeys |-> IF key = RootKey THEN root
                                ELSE IF key = MemberKey("a") THEN a ELSE b]
  /\ command \in CommandNames
  /\ pc = "start"
  /\ stack = <<>>
  /\ loaded = <<>>
  /\ manifest = None
  /\ commands = None
  /\ exitCode = None
  /\ rest = <<>>
  /\ index = 0
  /\ running = None
  /\ started = <<>>
  /\ exits = <<>>

\* ------------------------------------------------------------------------
\* Actions
\* ------------------------------------------------------------------------
\* main calls get_commands(&command), which calls
\* CargoToml::from_path("Cargo.toml").
CallGetCommands ==
  /\ pc = "start"
  /\ pc' = "get_commands"
  /\ stack' = <<Frame(<<"Cargo.toml">>)>>
  /\ UNCHANGED <<fs, command, loaded, manifest, commands, exitCode>>
  /\ UNCHANGED loopVars

\* from_path up to the workspace lookup: read_file, parse, the package key.
ReadManifest ==
  /\ pc = "get_commands"
  /\ stack # <<>>
  /\ Top.at = "read"
  /\ LET path == Top.path
         content == read_file(path)
         value == ParseToml(content.v, path)
         package == PackageTryFrom(value.v.package)
     IN /\ loaded' = Append(loaded, path)
        /\ stack' = SetTop(
             IF ~content.ok THEN Returned(Top, content)
             ELSE IF ~value.ok THEN Returned(Top, value)
             ELSE IF value.v.package.k = "absent"
                  THEN [Top EXCEPT !.at = "workspace", !.package = None]
             ELSE IF ~package.ok THEN Returned(Top, package)
             ELSE [Top EXCEPT !.at = "workspace", !.package = Some(package.v)])
  /\ UNCHANGED <<fs, pc, command, manifest, commands, exitCode>>
  /\ UNCHANGED loopVars

\* from_path at the workspace key, and Workspace::try_from up to the first
\* member load.
ResolveWorkspace ==
  /\ pc = "get_commands"
  /\ stack # <<>>
  /\ Top.at = "workspace"
  /\ LET workspace == FileAt(Top.path).workspace
         begin == WorkspaceBegin(workspace)
     IN stack' = SetTop(
          IF workspace.k = "absent"
          THEN Returned(Top, WithoutWorkspace(Top.path, Top.package))
          ELSE IF begin.t = "return"
          THEN Returned(Top, WithWorkspace(Top.path, Top.package, begin.r))
          ELSE IF begin.t = "members"
          THEN [Top EXCEPT !.at = "metadata", !.members = Some(begin.r)]
          ELSE IF begin.path_bufs = <<>>
          THEN [Top EXCEPT !.at = "metadata", !.members = Some(Ok(<<>>))]
          ELSE [Top EXCEPT !.at = "members", !.path_bufs = begin.path_bufs])
  /\ UNCHANGED <<fs, pc, command, loaded, manifest, commands, exitCode>>
  /\ UNCHANGED loopVars

\* The manifest path of the next member of the top call.
NextMember == Join(Top.path_bufs[Len(Top.packages) + 1], "Cargo.toml")
OnStack(path) == \E i \in 1..Len(stack) : FsKey(stack[i].path) = FsKey(path)

\* The member map calls from_path for the next path.
LoadMember ==
  /\ pc = "get_commands"
  /\ stack # <<>>
  /\ Top.at = "members"
  /\ ~OnStack(NextMember)
  /\ stack' = Append(stack, Frame(NextMember))
  /\ UNCHANGED <<fs, pc, command, loaded, manifest, commands, exitCode>>
  /\ UNCHANGED loopVars

\* The next member's manifest is one whose from_path call is still active:
\* the same calls repeat without end and the process dies of stack overflow.
StackOverflow ==
  /\ pc = "get_commands"
  /\ stack # <<>>
  /\ Top.at = "members"
  /\ OnStack(NextMember)
  /\ pc' = "overflow"
  /\ UNCHANGED <<fs, command, stack, loaded, manifest, commands, exitCode>>
  /\ UNCHANGED loopVars

\* A member's from_path has returned to the member map; collect stops at
\* the first Err.
MemberReturned ==
  /\ pc = "get_commands"
  /\ Len(stack) >= 2
  /\ Top.at = "done"
  /\ LET parent == stack[Len(stack) - 1]
         r == MemberPackage(Top.ret.v)
         packages == Append(parent.packages, r.v)
     IN stack' = Append(SubSeq(stack, 1, Len(stack) - 2),
          IF ~r.ok THEN [parent EXCEPT !.at = "metadata", !.cargo_toml = Top.ret,
                                       !.members = Some(r)]
          ELSE IF Len(packages) = Len(parent.path_bufs)
          THEN [parent EXCEPT !.at = "metadata", !.cargo_toml = Top.ret,
                              !.packages = packages, !.members = Some(Ok(packages))]
          ELSE [parent EXCEPT !.cargo_toml = Top.ret, !.packages = packages])
  /\ UNCHANGED <<fs, pc, command, loaded, manifest, commands, exitCode>>
  /\ UNCHANGED loopVars

\* Workspace::try_from from the metadata lookup on, and the end of from_path.
FinishWorkspace ==
  /\ pc = "get_commands"
  /\ stack # <<>>
  /\ Top.at = "metadata"
  /\ LET workspace == WorkspaceEnd(FileAt(Top.path).workspace, Top.members.v)
     IN stack' = SetTop(Returned(Top, WithWorkspace(Top.path, Top.package, workspace)))
  /\ UNCHANGED <<fs, pc, command, loaded, manifest, commands, exitCode>>
  /\ UNCHANGED loopVars

\* get_commands after from_path: the error is formatted, or the (never
\* filled) vector is returned.
get_commands(cargo_toml, name) ==
  IF ~cargo_toml.ok THEN Err(Display(cargo_toml.e)) ELSE Ok(<<>>)

ReturnGetCommands ==
  /\ pc = "get_commands"
  /\ Len(stack) = 1
  /\ Top.at = "done"
  /\ manifest' = Some(Top.ret.v)
  /\ commands' = Some(get_commands(Top.ret.v, command))
  /\ stack' = <<>>
  /\ pc' = "returned"
  /\ UNCHANGED <<fs, command, loaded, exitCode>>
  /\ UNCHANGED loopVars

\* ------------------------------------------------------------------------
\* main's loop and execute_command
\* ------------------------------------------------------------------------
\* subprocess::ExitStatus
Exited(code) == [k |-> "Exited", code |-> code]
Signaled(signal) == [k |-> "Signaled", code |-> signal]
Undetermined == [k |-> "Undetermined", code |-> 0]

\* What Exec::shell(command).join() may return.
JoinResults ==
  {Err("popen"), Ok(Exited(0)), Ok(Exited(2)), Ok(Signaled(9)), Ok(Undetermined)}

\* rest.join(" ")
RECURSIVE JoinSpace(_)
JoinSpace(args) ==
  IF args = <<>> THEN <<>>
  ELSE IF Len(args) = 1 THEN <<args[1]>>
  ELSE <<args[1], " ">> \o JoinSpace(Tail(args))

\* format!("{} {}", command, rest.join(" "))
ShellCommand(template, args) == template \o <<" ">> \o JoinSpace(args)

\* execute_command with an Err of join taken for a failure.
execute_command_ErrFails(joined) == IF joined.ok THEN joined.v ELSE Exited(1)

\* The status execute_command returns: sh.join().unwrap_or(Exited(0))
execute_command(joined) == IF joined.ok THEN joined.v ELSE Exited(0)

\* ExitStatus::success
success(exit) == exit.k = "Exited" /\ exit.code = 0

Continue == [t |-> "continue", code |-> 0]
ProcessExit(code) == [t |-> "exit", code |-> code]

\* The loop body after execute_command, never leaving the loop.
AfterCommand_KeepGoing(exit, i, len) == Continue

\* The loop body after execute_command, in iteration i (from 0) of len.
AfterCommand(exit, i, len) ==
  IF success(exit)
  THEN (IF i = len THEN ProcessExit(0) ELSE Continue)
  ELSE (IF exit.k = "Exited" THEN ProcessExit(exit.code) ELSE ProcessExit(1))

\* execute_command up to join: the shell command is printed and started.
ExecuteCommand ==
  /\ pc = "returned"
  /\ commands.v.ok
  /\ ~running.some
  /\ index < Len(commands.v.v)
  /\ running' = Some(ShellCommand(commands.v.v[index + 1][2], rest))
  /\ started' = Append(started, ShellCommand(commands.v.v[index + 1][2], rest))
  /\ UNCHANGED <<fs, pc, command, stack, loaded, manifest, commands, exitCode,
                 rest, index, exits>>

\* join returns, execute_command returns, and the loop body goes on.
JoinCommand ==
  /\ pc = "returned"
  /\ running.some
  /\ \E joined \in JoinResults :
       LET exit == execute_command(joined)
           after == AfterCommand(exit, index, Len(commands.v.v))
       IN /\ exits' = Append(exits, [joined |-> joined, exit |-> exit])
          /\ running' = None
          /\ IF after.t = "continue"
             THEN index' = index + 1 /\ UNCHANGED <<pc, exitCode>>
             ELSE pc' = "exit" /\ exitCode' = Some(after.code) /\ UNCHANGED index
  /\ UNCHANGED <<fs, command, stack, loaded, manifest, commands, rest, started>>

\* main after get_commands: unwrap_or_exit on an error, or the end of the
\* loop over the commands.
MainExit ==
  /\ pc = "returned"
  /\ ~running.some
  /\ \/ ~commands.v.ok /\ exitCode' = Some(1)
     \/ commands.v.ok /\ index = Len(commands.v.v) /\ exitCode' = Some(0)
  /\ pc' = "exit"
  /\ UNCHANGED <<fs, command, stack, loaded, manifest, commands>>
  /\ UNCHANGED loopVars

Next ==
  \/ CallGetCommands
  \/ ReadManifest
  \/ ResolveWorkspace
  \/ LoadMember
  \/ StackOverflow
  \/ MemberReturned
  \/ FinishWorkspace
  \/ ReturnGetCommands
  \/ MainExit

Spec == Init /\ [][Next]_vars

\* ------------------------------------------------------------------------
\* main's loop on every command list: get_commands has returned a list of
\* (name, template) entries for a package manifest.
\* ------------------------------------------------------------------------
HookTable == Table({"pret", "t", "postt"})
Entries == {<<n, HookTable[n]>> : n \in DOMAIN HookTable}
RestArgs == {<<>>, <<"x">>, <<"x", "y">>}

InitLoop ==
  /\ fs = [key \in FsKeys |-> IF key = RootKey
                               THEN Doc(PkgTable(MetaOk(HookTable)), Absent)
                               ELSE NoFile]
  /\ command \in CommandNames
  /\ pc = "returned"
  /\ stack = <<>>
  /\ loaded = << <<"Cargo.toml">> >>
  /\ manifest = Some(Ok(Package(<<"Cargo.toml">>, [commands |-> HookTable])))
  /\ commands \in {Some(Ok(list)) : list \in SeqsUpTo(Entries, MaxCommands)}
  /\ exitCode = None
  /\ rest \in RestArgs
  /\ index = 0
  /\ running = None
  /\ started = <<>>
  /\ exits = <<>>

NextLoop ==
  \/ ExecuteCommand
  \/ JoinCommand
  \/ MainExit

SpecLoop == InitLoop /\ [][NextLoop]_vars

\* ------------------------------------------------------------------------
\* Properties
\* ------------------------------------------------------------------------
RootFile == fs[RootKey]
IsDoc(file) == file.k = "doc"
HasPackage(file) == file.package.k # "absent"
HasWorkspace(file) == file.workspace.k # "absent"

\* A metadata value the code converts: a table with a commands table.
GoodMetadata(m) == m.k = "table"
GoodPackage(p) == p.k = "table" /\ GoodMetadata(p.metadata)
PackageOnly(file) ==
  IsDoc(file) /\ GoodPackage(file.package) /\ ~HasWorkspace(file)

\* The pattern is valid and every item of its iteration is a path.
Resolves(pattern) ==
  /\ Glob(pattern).ok
  /\ \A i \in 1..Len(Glob(pattern).v) : Glob(pattern).v[i].ok

\* The directories the patterns of a workspace table match, excludes aside.
RECURSIVE Matched(_)
Matched(patterns) ==
  IF patterns = <<>> THEN <<>>
  ELSE (IF Resolves(Head(patterns))
        THEN [i \in 1..Len(Glob(Head(patterns)).v) |-> Glob(Head(patterns)).v[i].v]
        ELSE <<>>) \o Matched(Tail(patterns))

ExcludesOf(workspace) ==
  IF workspace.k = "table" /\ workspace.exclude.k = "strings"
  THEN workspace.exclude.v ELSE <<>>

\* The members of a workspace table all load: its arrays are arrays of
\* strings, its patterns are valid, and every matched directory that no
\* exclude entry names holds a manifest with a package and no workspace.
MembersLoad(workspace) ==
  /\ workspace.members.k = "strings"
  /\ workspace.exclude.k \in {"absent", "strings"}
  /\ \A i \in 1..Len(workspace.members.v) : Resolves(workspace.members.v[i])
  /\ \A i \in 1..Len(Matched(workspace.members.v)) :
       LET dir == Matched(workspace.members.v)[i] IN
       (\A j \in 1..Len(ExcludesOf(workspace)) :
            Components(ExcludesOf(workspace)[j]) # Components(dir))
       => PackageOnly(FileAt(Join(dir, "Cargo.toml")))

GoodWorkspace(w) ==
  /\ w.k = "table"
  /\ w.metadata.k = "absent" \/ GoodMetadata(w.metadata)
  /\ MembersLoad(w)

WellFormed(file) ==
  /\ IsDoc(file)
  /\ HasPackage(file) \/ HasWorkspace(file)
  /\ HasPackage(file) => GoodPackage(file.package)
  /\ HasWorkspace(file) => GoodWorkspace(file.workspace)

VariantOf(file) ==
  IF HasWorkspace(file)
  THEN (IF HasPackage(file) THEN "RootPackage" ELSE "VirtualManifest")
  ELSE "Package"

\* C1: from_path returns a variant only as the sections present determine
\* it (workspace and package: RootPackage; workspace alone: VirtualManifest;
\* package alone: Package), and it does return that variant for every
\* manifest whose sections convert and whose members all load.
C1_VariantByPresence ==
  manifest.some =>
    /\ manifest.v.ok =>
         /\ IsDoc(RootFile)
         /\ HasPackage(RootFile) \/ HasWorkspace(RootFile)
         /\ manifest.v.v.k = VariantOf(RootFile)
    /\ WellFormed(RootFile) => manifest.v.ok

C1_Witness ==
  /\ manifest.some
  /\ manifest.v.ok
  /\ manifest.v.v.k = "RootPackage"
  /\ Len(manifest.v.v.workspace.members) >= 1

\* C2: a manifest that is a table with neither a package nor a workspace key
\* makes from_path fail with kind MalformedManifest.
C2_NeitherIsMalformed ==
  /\ \A i \in 1..Len(stack) :
       (/\ stack[i].at = "done"
        /\ IsDoc(FileAt(stack[i].path))
        /\ ~HasPackage(FileAt(stack[i].path))
        /\ ~HasWorkspace(FileAt(stack[i].path)))
       => ~stack[i].ret.v.ok /\ stack[i].ret.v.e.kind = "MalformedManifest"
  /\ (manifest.some /\ IsDoc(RootFile) /\ ~HasPackage(RootFile) /\ ~HasWorkspace(RootFile))
       => ~manifest.v.ok /\ manifest.v.e.kind = "MalformedManifest"

C2_Witness ==
  /\ manifest.some
  /\ IsDoc(RootFile)
  /\ ~HasPackage(RootFile)
  /\ ~HasWorkspace(RootFile)

\* A call of from_path that has returned, and its manifest.
Done(f) == f.at = "done"
FileOf(f) == FileAt(f.path)
Failed(r, kind) == ~r.ok /\ r.e.kind = kind

\* C3: when a member's manifest classifies as RootPackage or
\* VirtualManifest, the classification of the enclosing manifest fails with
\* kind MalformedManifest.
C3_NonPackageMemberIsMalformed ==
  \A i \in 1..Len(stack) :
    (/\ Done(stack[i])
     /\ stack[i].cargo_toml.some
     /\ stack[i].cargo_toml.v.ok
     /\ stack[i].cargo_toml.v.v.k # "Package")
    => Failed(stack[i].ret.v, "MalformedManifest")

\* C4: a manifest with a package table and no workspace table classifies as
\* Package with the empty command table when the package has no metadata
\* table or its metadata has no commands table.
C4_PackageDefaultsToNoCommands ==
  (/\ manifest.some
   /\ IsDoc(RootFile)
   /\ ~HasWorkspace(RootFile)
   /\ RootFile.package.k = "table"
   /\ RootFile.package.metadata.k \in {"absent", "nocommands"})
  => manifest.v = Ok(Package(<<"Cargo.toml">>, [commands |-> NoCommands]))

\* C5: a workspace table whose members resolve and load, and that has no
\* metadata or a metadata without a commands key, converts, and its own
\* command table is the empty mapping.
C5_WorkspaceDefaultsToNoCommands ==
  \A i \in 1..Len(stack) :
    (/\ Done(stack[i])
     /\ stack[i].members.some
     /\ stack[i].members.v.ok
     /\ FileOf(stack[i]).workspace.metadata.k \in {"absent", "nocommands"})
    => /\ stack[i].ret.v.ok
       /\ stack[i].ret.v.v.workspace.metadata = [commands |-> NoCommands]

\* C6: with a workspace table whose members key is absent or no array (and
\* a package section that is absent or converts), classification fails with
\* kind MalformedManifest whatever the workspace's exclude and metadata hold.
C6_MembersRequired ==
  \A i \in 1..Len(stack) :
    (/\ Done(stack[i])
     /\ IsDoc(FileOf(stack[i]))
     /\ HasPackage(FileOf(stack[i])) => GoodPackage(FileOf(stack[i]).package)
     /\ FileOf(stack[i]).workspace.k = "table"
     /\ FileOf(stack[i]).workspace.members.k \in {"absent", "nonarray"})
    => Failed(stack[i].ret.v, "MalformedManifest")

\* C7: the paths extend_globs returned for a workspace hold no path equal to
\* an entry of its exclude list, and every member manifest that is loaded is
\* the Cargo.toml of one of these paths.
C7_ExcludeLaw ==
  \A i \in 1..Len(stack) :
    /\ \A j \in 1..Len(stack[i].path_bufs) :
         \A x \in 1..Len(ExcludesOf(FileOf(stack[i]).workspace)) :
           Components(stack[i].path_bufs[j])
             # Components(ExcludesOf(FileOf(stack[i]).workspace)[x])
    /\ i > 1 =>
         \E j \in 1..Len(stack[i - 1].path_bufs) :
           stack[i].path = Join(stack[i - 1].path_bufs[j], "Cargo.toml")

\* A member is being loaded for a workspace one of whose patterns matches an
\* excluded directory.
C7_Witness ==
  /\ Len(stack) >= 2
  /\ \E j \in 1..Len(Matched(RootFile.workspace.members.v)) :
       \E x \in 1..Len(ExcludesOf(RootFile.workspace)) :
         Components(Matched(RootFile.workspace.members.v)[j])
           = Components(ExcludesOf(RootFile.workspace)[x])

\* The hook names of a command, in the order pre, main, post.
HookNames(name) == CASE name = "t" -> <<"pret", "t", "postt">>

\* The entries of a command table for the hooks of a command that it holds.
HookEntries(table, name) ==
  LET names == HookNames(name)
      present == SelectSeq(names, LAMBDA n : n \in DOMAIN table)
  IN [i \in 1..Len(present) |-> <<present[i], table[present[i]]>>]

RootTable == RootFile.package.metadata.commands

\* C8: for a package whose table holds the command, get_commands returns
\* the entries of pre, main and post hook that the table holds, in that
\* order: all three when all are present, the main entry alone when it is
\* alone.
C8_HookTriple ==
  (/\ pc = "returned"
   /\ PackageOnly(RootFile)
   /\ command \in DOMAIN RootTable)
  => commands.v = Ok(HookEntries(RootTable, command))

\* C9: for a package whose table does not hold the command, get_commands
\* fails with MissingCommand, also when pre or post hooks are present.
C9_MissingCommand ==
  (/\ pc = "returned"
   /\ PackageOnly(RootFile)
   /\ command \notin DOMAIN RootTable)
  => commands.v = Err(Display(Error("MissingCommand", <<command>>, <<>>)))

\* C10: for a workspace whose own table lacks the command and whose members
\* each declare it, get_commands returns one entry per member, in member
\* order.
C10_MemberEntries ==
  (/\ pc = "returned"
   /\ manifest.v.ok
   /\ manifest.v.v.k = "VirtualManifest"
   /\ command \notin DOMAIN manifest.v.v.workspace.metadata.commands
   /\ \A i \in 1..Len(manifest.v.v.workspace.members) :
        command \in DOMAIN manifest.v.v.workspace.members[i].metadata.commands)
  => commands.v = Ok([i \in 1..Len(manifest.v.v.workspace.members) |->
                       <<command, manifest.v.v.workspace.members[i].metadata.commands[command]>>])

\* The first n elements of a sequence (all of it when it is shorter).
Prefix(seq, n) == SubSeq(seq, 1, IF n < Len(seq) THEN n ELSE Len(seq))

\* C11: for a RootPackage whose package table and workspace table both hold
\* the command, get_commands returns the package's hook entries followed at
\* once by the workspace's hook entries; and when neither the package, the
\* workspace nor a member holds the command it fails with MissingCommand.
C11_PackageThenWorkspace ==
  (/\ pc = "returned"
   /\ manifest.v.ok
   /\ manifest.v.v.k = "RootPackage")
  => LET package == manifest.v.v.package.metadata.commands
         workspace == manifest.v.v.workspace.metadata.commands
         members == manifest.v.v.workspace.members
         both == HookEntries(package, command) \o HookEntries(workspace, command)
     IN /\ (command \in DOMAIN package /\ command \in DOMAIN workspace)
             => /\ commands.v.ok
                /\ Prefix(commands.v.v, Len(both)) = both
        /\ (/\ command \notin DOMAIN package
            /\ command \notin DOMAIN workspace
            /\ \A i \in 1..Len(members) : command \notin DOMAIN members[i].metadata.commands)
             => commands.v = Err(Display(Error("MissingCommand", <<command>>, <<>>)))

\* C12: the commands are executed one at a time in list order (a command
\* is started only when every earlier one has completed), and once a
\* command has exited unsuccessfully no later command is started.
C12_SequentialAbortOnFailure ==
  /\ Len(started) = Len(exits) + (IF running.some THEN 1 ELSE 0)
  /\ running.some => running.v = started[Len(started)]
  /\ Len(started) <= Len(commands.v.v)
  /\ \A i \in 1..Len(started) : started[i] = ShellCommand(commands.v.v[i][2], rest)
  /\ \A i \in 1..Len(exits) : ~success(exits[i].exit) => Len(started) = i

\* A command after the first has failed while commands remain.
C12_Witness ==
  /\ pc = "exit"
  /\ Len(exits) >= 2
  /\ ~success(exits[Len(exits)].exit)
  /\ Len(exits) < Len(commands.v.v)

\* C13: member loading terminates: from_path is never called for a manifest
\* whose from_path call is still active (the files being the same, such a
\* call repeats the calls that led to it without end).
C13_LoadingTerminates == pc # "overflow"

\* The first pattern of the list that does not resolve, 0 when all do.
RECURSIVE FirstUnresolved(_, _)
FirstUnresolved(patterns, i) ==
  IF i > Len(patterns) THEN 0
  ELSE IF Resolves(patterns[i]) THEN FirstUnresolved(patterns, i + 1)
  ELSE i

\* The manifest of the frame reaches the pattern resolver with a pattern that
\* does not resolve.
ResolverFails(f) ==
  /\ Done(f) /\ IsDoc(FileOf(f))
  /\ HasPackage(FileOf(f)) => GoodPackage(FileOf(f).package)
  /\ FileOf(f).workspace.k = "table"
  /\ FileOf(f).workspace.members.k = "strings"
  /\ FileOf(f).workspace.exclude.k \in {"absent", "strings"}
  /\ FirstUnresolved(FileOf(f).workspace.members.v, 1) > 0

FirstUnresolvedOf(f) ==
  FileOf(f).workspace.members.v[FirstUnresolved(FileOf(f).workspace.members.v, 1)]

\* C14 (as stated): when a member pattern is invalid or an entry of its
\* iteration cannot be resolved, the load fails with kind GlobError.
C14_GlobErrorForBoth ==
  \A i \in 1..Len(stack) :
    ResolverFails(stack[i]) => Failed(stack[i].ret.v, "GlobError")

\* C14 (amended): the first member pattern that does not resolve fails the
\* load, with kind PatternError when the pattern is invalid and with kind
\* GlobError when an entry of its iteration cannot be resolved; no member is
\* loaded, whatever the earlier patterns matched.
C14_PatternErrorOrGlobError ==
  \A i \in 1..Len(stack) :
    ResolverFails(stack[i]) =>
      /\ Failed(stack[i].ret.v,
                IF Glob(FirstUnresolvedOf(stack[i])).ok THEN "GlobError"
                ELSE "PatternError")
      /\ stack[i].path_bufs = <<>> /\ stack[i].packages = <<>>
      /\ ~stack[i].members.some

\* An unreadable directory is met after an earlier pattern matched a member.
C14_Witness ==
  /\ Len(stack) = 1 /\ ResolverFails(stack[1])
  /\ FirstUnresolved(FileOf(stack[1]).workspace.members.v, 1) = 2
  /\ Failed(stack[1].ret.v, "GlobError")

\* The directory of a manifest path, as components.
DirOf(path) == SubSeq(FsKey(path), 1, Len(FsKey(path)) - 1)

\* The directory lies inside the directory dir (both as components).
Inside(dir, directory) ==
  /\ Len(directory) > Len(dir)
  /\ SubSeq(directory, 1, Len(dir)) = dir

\* C15: for every manifest loaded, the root and the members loaded
\* recursively, each directory its member patterns resolve to lies inside
\* the directory of that manifest, so that the member manifest read is
\* <manifest directory>/<matched directory>/Cargo.toml.
C15_RelativeToManifest ==
  \A i \in 1..Len(stack) :
    \A j \in 1..Len(stack[i].path_bufs) :
      Inside(DirOf(stack[i].path), FsKey(stack[i].path_bufs[j]))

\* C16: an error raised while a manifest is loaded is what from_path returns
\* for that manifest, unchanged: when the members of a workspace table
\* produced an error (members missing or no array, or a member that failed to
\* load or is no package), from_path returns that very error, not one raised
\* later.
C16_FirstErrorPropagates ==
  \A i \in 1..Len(stack) :
    (Done(stack[i]) /\ stack[i].members.some /\ ~stack[i].members.v.ok)
      => stack[i].ret.v = stack[i].members.v

\* A metadata value of the wrong type: no table, or a table whose commands
\* value is no table of strings.
WrongTypeMetadata(m) == m.k \in {"nontable", "badcommands"}

\* The manifest of the frame has a value of the wrong type, and nothing that
\* is read before that value fails.
WrongTypeReached(f) ==
  LET file == FileOf(f) IN
  /\ IsDoc(file)
  /\ \/ file.package.k = "nontable"
     \/ file.package.k = "table" /\ WrongTypeMetadata(file.package.metadata)
     \/ /\ HasPackage(file) => GoodPackage(file.package)
        /\ file.workspace.k = "table"
        /\ \/ /\ file.workspace.exclude.k = "bad"
              /\ file.workspace.members.k \in {"strings", "badelems"}
           \/ /\ file.workspace.members.k = "badelems"
              /\ file.workspace.exclude.k \in {"absent", "strings"}
           \/ /\ WrongTypeMetadata(file.workspace.metadata)
              /\ f.members.some /\ f.members.v.ok

\* C17: a manifest with a value of the wrong type (a package that is no
\* table, a metadata or commands value that is no table of strings, a members
\* array with an element that is no string, an exclude value that is no array
\* of strings) makes from_path fail with kind MalformedManifest.
C17_WrongTypeIsMalformed ==
  \A i \in 1..Len(stack) :
    (Done(stack[i]) /\ WrongTypeReached(stack[i]))
      => Failed(stack[i].ret.v, "MalformedManifest")

\* The exit code main ends with after the commands joined so far.
ExitCodeOf(joins) ==
  IF joins = <<>> \/ success(joins[Len(joins)].exit) THEN 0
  ELSE IF joins[Len(joins)].exit.k = "Exited" THEN joins[Len(joins)].exit.code
  ELSE 1

\* C18: in main's loop a command whose join returned no exit status counts as
\* exit 0: it does not end the sequence (the tool exits after it only when it
\* was the last command, and then with 0); the tool exits non-zero only after
\* a command whose join returned an unsuccessful status, with that status's
\* code when it is an exit code and with 1 otherwise.
C18_NoStatusIsSuccess ==
  /\ \A i \in 1..Len(exits) :
       ~exits[i].joined.ok =>
         /\ exits[i].exit = Exited(0)
         /\ (pc = "exit" /\ i = Len(exits)) => i = Len(commands.v.v)
  /\ \A i \in 1..Len(exits) :
       ~success(exits[i].exit) =>
         /\ exits[i].joined.ok /\ exits[i].joined.v = exits[i].exit
         /\ i = Len(exits) /\ pc = "exit"
  /\ pc = "exit" =>
       /\ exitCode = Some(ExitCodeOf(exits))
       /\ exitCode # Some(0) =>
            /\ exits[Len(exits)].joined.ok
            /\ exitCode.v = (IF exits[Len(exits)].joined.v.k = "Exited"
                             THEN exits[Len(exits)].joined.v.code ELSE 1)
       /\ exitCode = Some(0) => Len(exits) = Len(commands.v.v)

\* A command without exit status was followed by further commands and the
\* tool exited with 0.
C18_Witness ==
  /\ pc = "exit" /\ exitCode = Some(0)
  /\ Len(exits) >= 2
  /\ ~exits[1].joined.ok
  /\ started[2] = ShellCommand(commands.v.v[2][2], rest)

====
